---- MODULE Spec2Model ----
(***************************************************************************)
(* Model of the data cell of CNN/DataDriven_StarNet_CNN.ipynb ("Load       *)
(* non-normalized spectra"): label normalization, NaN replacement, removal *)
(* of zero-variance spectra, shuffle and train / cross-validation split.   *)
(*                                                                         *)
(* Floating-point values are modelled as extended rationals                *)
(* [num, den]: den > 0 is the finite value num/den in lowest terms,        *)
(* 1/0 is +inf, -1/0 is -inf and 0/0 is NaN.  Arithmetic is exact: the     *)
(* rounding of IEEE doubles is not modelled.                               *)
(***************************************************************************)
EXTENDS Integers, Sequences, FiniteSets, TLC

\* ------------------------------------------------------------ bounds
MaxRows == 3        \* rows of the training file (Spec, SpecRerun, SpecNorm)
CleanRows == 2      \* rows of the training file (SpecClean)
NumFluxes == 2      \* wavelength bins per spectrum (spectra.shape[1])
MaxLabel == 2       \* largest raw label value in the file
RngStates == 6      \* number of states of the abstracted np.random generator
MaxDraws == 2       \* draws the model-building cell may take from np.random
MaxRuns == 2        \* times the data cell is executed (SpecRerun)
MaxK == 3           \* largest ensemble size of an error propagation (SpecProp)

\* ------------------------------------------------------------ constants
NumLabels == 3      \* TEFF, LOGG, FE_H

\* ------------------------------------------------------------ floats
Fl(n) == [num |-> n, den |-> 1]
NaN == [num |-> 0, den |-> 0]
PosInf == [num |-> 1, den |-> 0]
NegInf == [num |-> -1, den |-> 0]

np_isnan(v) == v.den = 0 /\ v.num = 0

Abs(n) == IF n < 0 THEN -n ELSE n
Min(a, b) == IF a < b THEN a ELSE b

RECURSIVE Gcd(_, _)
Gcd(a, b) == IF b = 0 THEN a ELSE Gcd(b, a % b)

\* n/d as a float: lowest terms and positive denominator, IEEE results for d = 0
Ratio(n, d) ==
  IF d = 0
    THEN (IF n > 0 THEN PosInf ELSE IF n < 0 THEN NegInf ELSE NaN)
    ELSE LET g == Gcd(Abs(n), Abs(d))
             s == IF d < 0 THEN -1 ELSE 1
         IN  [num |-> (s * n) \div g, den |-> (s * d) \div g]

\* a - b, a + b, a * b, a / b for floats (NaN and inf as IEEE gives them)
fsub(a, b) ==
  IF a.den = 0 \/ b.den = 0
    THEN (IF np_isnan(a) \/ np_isnan(b) THEN NaN
          ELSE IF a.den = 0 /\ b.den = 0
                 THEN (IF a.num = b.num THEN NaN ELSE a)
          ELSE IF a.den = 0 THEN a ELSE [num |-> -b.num, den |-> 0])
    ELSE Ratio(a.num * b.den - b.num * a.den, a.den * b.den)

fadd(a, b) ==
  IF a.den = 0 \/ b.den = 0
    THEN (IF np_isnan(a) \/ np_isnan(b) THEN NaN
          ELSE IF a.den = 0 /\ b.den = 0
                 THEN (IF a.num = b.num THEN a ELSE NaN)
          ELSE IF a.den = 0 THEN a ELSE b)
    ELSE Ratio(a.num * b.den + b.num * a.den, a.den * b.den)

Sign(v) == IF v.num > 0 THEN 1 ELSE IF v.num < 0 THEN -1 ELSE 0

fmul(a, b) ==
  IF a.den = 0 \/ b.den = 0
    THEN (IF np_isnan(a) \/ np_isnan(b) \/ a.num = 0 \/ b.num = 0 THEN NaN
          ELSE [num |-> Sign(a) * Sign(b), den |-> 0])
    ELSE Ratio(a.num * b.num, a.den * b.den)

fdiv(a, b) ==
  IF a.den = 0 \/ b.den = 0
    THEN (IF np_isnan(a) \/ np_isnan(b) \/ (a.den = 0 /\ b.den = 0) THEN NaN
          ELSE IF a.den = 0
                 THEN [num |-> Sign(a) * (IF b.num < 0 THEN -1 ELSE 1), den |-> 0]
          ELSE Fl(0))
    ELSE Ratio(a.num * b.den, a.den * b.num)

\* ------------------------------------------------------------ state
VARIABLES
  F_spectrum,       \* column "spectrum" of the training file
  F_labels,         \* columns TEFF, LOGG, FE_H of the training file, row-aligned
  npy_mean_and_std, \* the persisted 2-by-D statistics file
  rng,              \* interpreter-wide state of np.random
  pc,               \* position in the notebook
  execution_count,  \* completed executions of the data cell
  mean_and_std, mean_labels, std_labels,
  spectra, labels, num_fluxes, num_train, indices,
  reference_data,
  perm,             \* history: the permutation the last shuffle applied
  train_spectra, train_labels, cv_spectra, cv_labels,
  ep_pc,            \* error propagation: idle, predicting, returned, raised
  ep_K,             \* ensemble size of the invocation
  ep_preds,         \* predictions obtained so far (normalized label space)
  ep_error,         \* the error raised, or "none"
  ep_estimate       \* <<>> or <<the estimate returned>>

vars == <<F_spectrum, F_labels, npy_mean_and_std, rng, pc, execution_count,
          mean_and_std, mean_labels, std_labels, spectra, labels, num_fluxes,
          num_train, indices, reference_data, perm,
          train_spectra, train_labels, cv_spectra, cv_labels,
          ep_pc, ep_K, ep_preds, ep_error, ep_estimate>>

ep == <<ep_pc, ep_K, ep_preds, ep_error, ep_estimate>>
files == <<F_spectrum, F_labels, npy_mean_and_std>>
outputs == <<train_spectra, train_labels, cv_spectra, cv_labels>>

\* ------------------------------------------------------------ inputs
FluxValues == {NaN, Fl(0), Fl(1)}
FluxRows == [1..NumFluxes -> FluxValues]

ZeroRow == [k \in 1..NumFluxes |-> Fl(0)]
RampRow == [k \in 1..NumFluxes |-> Fl(k - 1)]
GapRow == [k \in 1..NumFluxes |-> IF k = 1 THEN NaN ELSE Fl(1)]
SplitRows == {ZeroRow, RampRow, GapRow}

LabelRamp(a) == [d \in 1..NumLabels |-> a + d - 1]
LabelRows == {LabelRamp(a) : a \in 0..MaxLabel}

StatsTables ==
  { <<<<0, 1, 2>>, <<1, 2, 3>>>>,
    <<<<1, 0, 1>>, <<2, 1, 2>>>>,
    <<<<0, 0, 1>>, <<1, 0, 2>>>>,
    <<<<2, 1, 0>>, <<0, 0, 0>>>> }
GoodStats == <<<<0, 1, 2>>, <<1, 2, 3>>>>

\* ------------------------------------------------------------ normalization
\* mean_and_std[0], mean_and_std[1]
std_row_as_mean(ms) == ms[1]

mean_row(ms) == ms[1]
std_row(ms) == ms[2]

normalize_first_dim(lb) ==
  [d \in 1..Len(lb) |-> fdiv(fsub(lb[d], Fl(mean_labels[1])), Fl(std_labels[1]))]

normalize_no_center(lb) ==
  [d \in 1..Len(lb) |-> fdiv(lb[d], Fl(std_labels[d]))]

\* def normalize(lb): return (lb-mean_labels)/std_labels   (broadcast per column)
normalize(lb) ==
  [d \in 1..Len(lb) |-> fdiv(fsub(lb[d], Fl(mean_labels[d])), Fl(std_labels[d]))]

\* the inverse named by the specification: x*std + mean
denormalize(lb) ==
  [d \in 1..Len(lb) |-> fadd(fmul(lb[d], Fl(std_labels[d])), Fl(mean_labels[d]))]

\* np.column_stack((F["TEFF"][:],F["LOGG"][:],F["FE_H"][:])) as float rows
load_labels(tbl) == [r \in 1..Len(tbl) |-> [d \in 1..Len(tbl[r]) |-> Fl(tbl[r][d])]]

\* ------------------------------------------------------------ cleaning
nan_to_one(row) == [k \in 1..Len(row) |-> IF np_isnan(row[k]) THEN Fl(1) ELSE row[k]]

keep_nan(row) == row

\* spectra[np.where(np.isnan(spectra))] = 0.   (one row)
nan_to_zero(row) == [k \in 1..Len(row) |-> IF np_isnan(row[k]) THEN Fl(0) ELSE row[k]]

RECURSIVE SumNum(_, _)
SumNum(row, k) == IF k = 0 THEN 0 ELSE row[k].num + SumNum(row, k - 1)

RECURSIVE SumSqNum(_, _)
SumSqNum(row, k) == IF k = 0 THEN 0 ELSE row[k].num * row[k].num + SumSqNum(row, k - 1)

sum_nonzero(row) ==
  IF \E k \in 1..Len(row) : np_isnan(row[k]) THEN TRUE ELSE SumNum(row, Len(row)) # 0

\* np.std(row) != 0. : the variance is (n*sum(x^2) - sum(x)^2) / n^2, and a row
\* holding a NaN has std NaN, which compares unequal to 0.
std_nonzero(row) ==
  IF \E k \in 1..Len(row) : np_isnan(row[k])
    THEN TRUE
    ELSE Len(row) * SumSqNum(row, Len(row)) - SumNum(row, Len(row)) * SumNum(row, Len(row)) # 0

\* np.where(spec_std != 0.)[0]: the row numbers kept, ascending
RECURSIVE np_where_nonzero(_, _)
np_where_nonzero(sp, n) ==
  IF n = 0 THEN <<>>
  ELSE IF std_nonzero(sp[n]) THEN Append(np_where_nonzero(sp, n - 1), n)
  ELSE np_where_nonzero(sp, n - 1)

\* a[indices]
take_rows(a, idx) == [i \in 1..Len(idx) |-> a[idx[i]]]

\* np.column_stack((spectra, labels))
column_stack(sp, lb) == [i \in 1..Len(sp) |-> sp[i] \o lb[i]]

\* ------------------------------------------------------------ shuffle
\* np.random is abstracted to a generator of RngStates states: a draw returns a
\* value fixed by the state and the bound, and advances the state.
rk_next(s) == (s + 1) % RngStates
rk_interval(max, s) == s % (max + 1)

RECURSIVE rk_advance(_, _)
rk_advance(s, k) == IF k = 0 THEN s ELSE rk_advance(rk_next(s), k - 1)

swap_overwrite(x, i, j) == [x EXCEPT ![j] = x[i]]

\* buf = x[j]; x[j] = x[i]; x[i] = buf
swap(x, i, j) == [x EXCEPT ![i] = x[j], ![j] = x[i]]

\* for i in reversed(range(1, n)): j = rk_interval(i); swap x[i], x[j]
\* (positions are 1-based here: i runs from n down to 2)
RECURSIVE fisher_yates(_, _, _)
fisher_yates(x, i, s) ==
  IF i < 2 THEN [arr |-> x, state |-> s]
  ELSE fisher_yates(swap(x, i, rk_interval(i - 1, s) + 1), i - 1, rk_next(s))

np_random_shuffle(x, s) == fisher_yates(x, Len(x), s)

Identity(n) == [i \in 1..n |-> i]
ShufflePerm(n, s) == np_random_shuffle(Identity(n), s).arr

\* ------------------------------------------------------------ split
\* a[lo:hi] for 0 <= lo
py_slice(a, lo, hi) ==
  LET h == Min(hi, Len(a))
  IN  [i \in 1..(IF h > lo THEN h - lo ELSE 0) |-> a[lo + i]]

\* reference_data[lo:hi, 0:num_fluxes].reshape(n, num_fluxes, 1)
split_spectra(rd, lo, hi, nf) ==
  LET rows == py_slice(rd, lo, hi)
  IN  [i \in 1..Len(rows) |-> [k \in 1..nf |-> <<rows[i][k]>>]]

split_labels_shifted(rd, lo, hi, nf) ==
  LET rows == py_slice(rd, lo + 1, hi + 1)
  IN  [i \in 1..Len(rows) |-> SubSeq(rows[i], nf + 1, Len(rows[i]))]

\* reference_data[lo:hi, num_fluxes:]
split_labels(rd, lo, hi, nf) ==
  LET rows == py_slice(rd, lo, hi)
  IN  [i \in 1..Len(rows) |-> SubSeq(rows[i], nf + 1, Len(rows[i]))]

int_round_nine_tenths(n) == (9 * n + 5) \div 10

\* int(0.9*n)
int_nine_tenths(n) == (9 * n) \div 10

\* ------------------------------------------------------------ initial states
Unset ==
  /\ pc = "build"
  /\ execution_count = 0
  /\ mean_and_std = <<>> /\ mean_labels = <<>> /\ std_labels = <<>>
  /\ spectra = <<>> /\ labels = <<>>
  /\ num_fluxes = NumFluxes /\ num_train = 0
  /\ indices = <<>> /\ reference_data = <<>> /\ perm = <<>>
  /\ train_spectra = <<>> /\ train_labels = <<>>
  /\ cv_spectra = <<>> /\ cv_labels = <<>>
  /\ ep_pc = "idle" /\ ep_K = 0 /\ ep_preds = <<>>
  /\ ep_error = "none" /\ ep_estimate = <<>>

Init ==
  /\ \E R \in 0..MaxRows :
       /\ F_spectrum \in [1..R -> SplitRows]
       /\ F_labels \in [1..R -> {LabelRamp(0), LabelRamp(MaxLabel)}]
  /\ npy_mean_and_std = GoodStats
  /\ rng \in 0..(RngStates - 1)
  /\ Unset

InitClean ==
  /\ \E R \in 0..CleanRows :
       /\ F_spectrum \in [1..R -> FluxRows]
       /\ F_labels = [r \in 1..R |-> LabelRamp(r % (MaxLabel + 1))]
  /\ npy_mean_and_std = GoodStats
  /\ rng = 0
  /\ Unset

InitNorm ==
  /\ \E R \in 0..MaxRows :
       /\ F_spectrum = [r \in 1..R |-> RampRow]
       /\ F_labels \in [1..R -> LabelRows]
  /\ npy_mean_and_std \in StatsTables
  /\ rng = 0
  /\ Unset

\* ------------------------------------------------------------ actions
\* model = build_model(input_spec): the initializers of the layers draw their
\* seeds from np.random
BuildModel ==
  /\ pc = "build"
  /\ \E k \in 0..MaxDraws : rng' = rk_advance(rng, k)
  /\ pc' = "start"
  /\ UNCHANGED <<files, execution_count, mean_and_std, mean_labels, std_labels,
                 spectra, labels, num_fluxes, num_train, indices, reference_data,
                 perm, outputs>>
  /\ UNCHANGED ep

LoadStats ==
  /\ pc = "start"
  /\ mean_and_std' = npy_mean_and_std
  /\ mean_labels' = mean_row(npy_mean_and_std)
  /\ std_labels' = std_row(npy_mean_and_std)
  /\ pc' = "stats"
  /\ UNCHANGED <<files, rng, execution_count, spectra, labels, num_fluxes,
                 num_train, indices, reference_data, perm, outputs>>
  /\ UNCHANGED ep

LoadData ==
  /\ pc = "stats"
  /\ spectra' = F_spectrum
  /\ labels' = load_labels(F_labels)
  /\ pc' = "loaded"
  /\ UNCHANGED <<files, rng, execution_count, mean_and_std, mean_labels,
                 std_labels, num_fluxes, num_train, indices, reference_data,
                 perm, outputs>>
  /\ UNCHANGED ep

NormalizeLabels ==
  /\ pc = "loaded"
  /\ labels' = [r \in 1..Len(labels) |-> normalize(labels[r])]
  /\ pc' = "normalized"
  /\ UNCHANGED <<files, rng, execution_count, mean_and_std, mean_labels,
                 std_labels, spectra, num_fluxes, num_train, indices,
                 reference_data, perm, outputs>>
  /\ UNCHANGED ep

CountTrain ==
  /\ pc = "normalized"
  /\ num_fluxes' = NumFluxes
  /\ num_train' = int_nine_tenths(Len(labels))
  /\ pc' = "counted"
  /\ UNCHANGED <<files, rng, execution_count, mean_and_std, mean_labels,
                 std_labels, spectra, labels, indices, reference_data, perm,
                 outputs>>
  /\ UNCHANGED ep

SetNanToZero ==
  /\ pc = "counted"
  /\ spectra' = [r \in 1..Len(spectra) |-> nan_to_zero(spectra[r])]
  /\ pc' = "nanfixed"
  /\ UNCHANGED <<files, rng, execution_count, mean_and_std, mean_labels,
                 std_labels, labels, num_fluxes, num_train, indices,
                 reference_data, perm, outputs>>
  /\ UNCHANGED ep

RemoveZeroSpectra ==
  /\ pc = "nanfixed"
  /\ LET idx == np_where_nonzero(spectra, Len(spectra))
     IN  /\ indices' = idx
         /\ spectra' = take_rows(spectra, idx)
         /\ labels' = take_rows(labels, idx)
  /\ pc' = "filtered"
  /\ UNCHANGED <<files, rng, execution_count, mean_and_std, mean_labels,
                 std_labels, num_fluxes, num_train, reference_data, perm,
                 outputs>>
  /\ UNCHANGED ep

ColumnStack ==
  /\ pc = "filtered"
  /\ reference_data' = column_stack(spectra, labels)
  /\ pc' = "stacked"
  /\ UNCHANGED <<files, rng, execution_count, mean_and_std, mean_labels,
                 std_labels, spectra, labels, num_fluxes, num_train, indices,
                 perm, outputs>>
  /\ UNCHANGED ep

Shuffle ==
  /\ pc = "stacked"
  /\ LET res == np_random_shuffle(reference_data, rng)
     IN  /\ reference_data' = res.arr
         /\ rng' = res.state
  /\ perm' = ShufflePerm(Len(reference_data), rng)
  /\ pc' = "shuffled"
  /\ UNCHANGED <<files, execution_count, mean_and_std, mean_labels, std_labels,
                 spectra, labels, num_fluxes, num_train, indices, outputs>>
  /\ UNCHANGED ep

Split ==
  /\ pc = "shuffled"
  /\ train_spectra' = split_spectra(reference_data, 0, num_train, num_fluxes)
  /\ train_labels' = split_labels(reference_data, 0, num_train, num_fluxes)
  /\ cv_spectra' = split_spectra(reference_data, num_train, Len(reference_data), num_fluxes)
  /\ cv_labels' = split_labels(reference_data, num_train, Len(reference_data), num_fluxes)
  /\ pc' = "split"
  /\ UNCHANGED <<files, rng, execution_count, mean_and_std, mean_labels,
                 std_labels, spectra, labels, num_fluxes, num_train, indices,
                 reference_data, perm>>
  /\ UNCHANGED ep

Clear ==
  /\ pc = "split"
  /\ reference_data' = <<>>
  /\ spectra' = <<>>
  /\ labels' = <<>>
  /\ execution_count' = execution_count + 1
  /\ pc' = "done"
  /\ UNCHANGED <<files, rng, mean_and_std, mean_labels, std_labels, num_fluxes,
                 num_train, indices, perm, outputs>>
  /\ UNCHANGED ep

\* the data cell is executed again on the same files
Rerun ==
  /\ pc = "done"
  /\ execution_count < MaxRuns
  /\ pc' = "start"
  /\ UNCHANGED <<files, rng, execution_count, mean_and_std, mean_labels,
                 std_labels, spectra, labels, num_fluxes, num_train, indices,
                 reference_data, perm, outputs>>
  /\ UNCHANGED ep

\* ------------------------------------------------------------ error propagation
\* 6_Error_Propogation.ipynb: perturb-and-aggregate estimate of the uncertainty of
\* a prediction.  The model's predictions are opaque: any row of PredRows, or a
\* failure.
PredRows == {[d \in 1..NumLabels |-> Fl(a)] : a \in {-1, 0, 1}}

cell == <<F_spectrum, F_labels, npy_mean_and_std, rng, pc, execution_count,
          mean_and_std, mean_labels, std_labels, spectra, labels, num_fluxes,
          num_train, indices, reference_data, perm,
          train_spectra, train_labels, cv_spectra, cv_labels>>

RECURSIVE ColumnSum(_, _, _)
ColumnSum(rows, d, n) ==
  IF n = 0 THEN Fl(0) ELSE fadd(rows[n][d], ColumnSum(rows, d, n - 1))

RECURSIVE ColumnSumSq(_, _, _)
ColumnSumSq(rows, d, n) ==
  IF n = 0 THEN Fl(0) ELSE fadd(fmul(rows[n][d], rows[n][d]), ColumnSumSq(rows, d, n - 1))

ensemble_mean(rows) ==
  [d \in 1..NumLabels |-> fdiv(ColumnSum(rows, d, Len(rows)), Fl(Len(rows)))]

\* the square of the ensemble standard deviation
ensemble_var(rows) ==
  [d \in 1..NumLabels |->
     fsub(fdiv(ColumnSumSq(rows, d, Len(rows)), Fl(Len(rows))),
          fmul(ensemble_mean(rows)[d], ensemble_mean(rows)[d]))]

\* invert the normalization of each member, then mean and spread per label
aggregate(preds) ==
  LET phys == [i \in 1..Len(preds) |-> denormalize(preds[i])]
  IN  [mean |-> ensemble_mean(phys), var |-> ensemble_var(phys)]

ep_enough_one(K) == K >= 1

\* K must be >= 2
ep_enough(K) == K >= 2

ep_on_failure_partial(preds) ==
  [pc |-> "returned", error |-> "none", estimate |-> <<aggregate(preds)>>]

\* a member's forward pass throws: the whole estimate fails
ep_on_failure(preds) ==
  [pc |-> "raised", error |-> "PropagationError", estimate |-> <<>>]

InitProp ==
  /\ F_spectrum = <<>> /\ F_labels = <<>>
  /\ npy_mean_and_std \in StatsTables
  /\ rng = 0
  /\ pc = "propagate"
  /\ execution_count = 0
  /\ mean_and_std = npy_mean_and_std
  /\ mean_labels = mean_row(npy_mean_and_std)
  /\ std_labels = std_row(npy_mean_and_std)
  /\ spectra = <<>> /\ labels = <<>>
  /\ num_fluxes = NumFluxes /\ num_train = 0
  /\ indices = <<>> /\ reference_data = <<>> /\ perm = <<>>
  /\ train_spectra = <<>> /\ train_labels = <<>>
  /\ cv_spectra = <<>> /\ cv_labels = <<>>
  /\ ep_pc = "idle" /\ ep_K = 0 /\ ep_preds = <<>>
  /\ ep_error = "none" /\ ep_estimate = <<>>

EP_Invoke ==
  /\ ep_pc = "idle"
  /\ \E K \in 0..MaxK :
       /\ ep_K' = K
       /\ IF ep_enough(K)
            THEN ep_pc' = "predicting" /\ ep_error' = "none"
            ELSE ep_pc' = "raised" /\ ep_error' = "InsufficientSamplesError"
  /\ ep_preds' = <<>>
  /\ ep_estimate' = <<>>
  /\ UNCHANGED cell

EP_Predict ==
  /\ ep_pc = "predicting"
  /\ Len(ep_preds) < ep_K
  /\ \E y \in PredRows : ep_preds' = Append(ep_preds, y)
  /\ UNCHANGED <<ep_pc, ep_K, ep_error, ep_estimate>>
  /\ UNCHANGED cell

EP_PredictFails ==
  /\ ep_pc = "predicting"
  /\ Len(ep_preds) < ep_K
  /\ LET o == ep_on_failure(ep_preds)
     IN  /\ ep_pc' = o.pc
         /\ ep_error' = o.error
         /\ ep_estimate' = o.estimate
  /\ UNCHANGED <<ep_K, ep_preds>>
  /\ UNCHANGED cell

EP_Aggregate ==
  /\ ep_pc = "predicting"
  /\ Len(ep_preds) = ep_K
  /\ ep_estimate' = <<aggregate(ep_preds)>>
  /\ ep_pc' = "returned"
  /\ UNCHANGED <<ep_K, ep_preds, ep_error>>
  /\ UNCHANGED cell

NextProp ==
  \/ EP_Invoke
  \/ EP_Predict
  \/ EP_PredictFails
  \/ EP_Aggregate

Next ==
  \/ BuildModel
  \/ LoadStats
  \/ LoadData
  \/ NormalizeLabels
  \/ CountTrain
  \/ SetNanToZero
  \/ RemoveZeroSpectra
  \/ ColumnStack
  \/ Shuffle
  \/ Split
  \/ Clear

NextRerun == Next \/ Rerun

Spec == Init /\ [][Next]_vars
SpecRerun == Init /\ [][NextRerun]_vars
SpecClean == InitClean /\ [][Next]_vars
SpecNorm == InitNorm /\ [][Next]_vars
SpecProp == InitProp /\ [][NextProp]_vars

\* ------------------------------------------------------------ shared notions
NumRows == Len(F_spectrum)
CleanedRow(r) == [k \in 1..NumFluxes |-> IF np_isnan(F_spectrum[r][k]) THEN Fl(0) ELSE F_spectrum[r][k]]
IsConstant(row) == \A j, k \in 1..Len(row) : row[j] = row[k]
HasNaN(row) == \E k \in 1..Len(row) : np_isnan(row[k])
Survivors == {r \in 1..NumRows : ~IsConstant(CleanedRow(r))}
IsAscending(s) == \A i, j \in 1..Len(s) : i < j => s[i] < s[j]
SeqRange(s) == {s[i] : i \in 1..Len(s)}
Unwrap(cube) == [i \in 1..Len(cube) |-> [k \in 1..Len(cube[i]) |-> cube[i][k][1]]]
AfterFilter == pc \in {"filtered", "stacked", "shuffled", "split"}
AfterSplit == pc \in {"split", "done"}

\* ------------------------------------------------------------ claims

\* C1: no flux value of a spectrum that leaves the cleaning steps is NaN, and so
\* none in train_spectra or cv_spectra, whatever NaNs the file holds.
C1_NoNaNLeavesPreprocessor ==
  /\ AfterFilter => \A i \in 1..Len(spectra) : ~HasNaN(spectra[i])
  /\ pc \in {"stacked", "shuffled"} =>
       \A i \in 1..Len(reference_data) : \A k \in 1..num_fluxes :
         ~np_isnan(reference_data[i][k])
  /\ AfterSplit =>
       /\ \A i \in 1..Len(train_spectra) : ~HasNaN(Unwrap(train_spectra)[i])
       /\ \A i \in 1..Len(cv_spectra) : ~HasNaN(Unwrap(cv_spectra)[i])

\* a spectrum that held a NaN in the file has reached the training set
C1_Witness ==
  /\ pc = "done"
  /\ Len(train_spectra) > 0
  /\ \E i \in 1..Len(train_spectra) : HasNaN(F_spectrum[indices[perm[i]]])

C5_TrainIsFloorOfCleaned ==
  AfterSplit =>
    LET N == Len(indices)
    IN  /\ Len(train_spectra) = (9 * N) \div 10
        /\ Len(cv_spectra) = N - (9 * N) \div 10

\* C6: executing the split again on the same files gives the same train and
\* cross-validation sets, in the same order.
C6_SplitReproducible ==
  [][(pc = "shuffled" /\ pc' = "split" /\ execution_count >= 1)
       => (train_spectra' = train_spectra /\ train_labels' = train_labels
           /\ cv_spectra' = cv_spectra /\ cv_labels' = cv_labels)]_vars

\* C7: the draws of another consumer of np.random never change the permutation
\* a split produces.
C7_DrawsDoNotInterfere ==
  [][(pc = "build" /\ pc' = "start")
       => \A n \in 0..MaxRows : ShufflePerm(n, rng') = ShufflePerm(n, rng)]_vars

\* C8: each normalized label is (x - mean) / std of its own column, the mean
\* from row 0 and the std from row 1 of the statistics file (stated by
\* cross-multiplication; a zero std gives the IEEE quotient inf or NaN).
C8_NormalizePerDimension ==
  pc \in {"normalized", "counted", "nanfixed"} =>
    /\ Len(labels) = NumRows
    /\ \A r \in 1..NumRows : \A d \in 1..NumLabels :
         LET x == F_labels[r][d]
             m == npy_mean_and_std[1][d]
             s == npy_mean_and_std[2][d]
             y == labels[r][d]
         IN  IF s # 0
               THEN y.den > 0 /\ y.num * s = (x - m) * y.den
               ELSE y.den = 0 /\ y.num = Sign(Fl(x - m))

\* labels normalized with statistics that differ from column to column
C8_Witness ==
  /\ pc = "normalized"
  /\ NumRows >= 2
  /\ npy_mean_and_std = <<<<1, 0, 1>>, <<2, 1, 2>>>>
  /\ \E r \in 1..NumRows : labels[r][1].den = 2 /\ labels[r][2].den = 1

\* C9: x*std + mean applied to a normalized label gives back the label of the
\* file, in every column whose std is not zero.
C9_NormalizeInvertible ==
  pc \in {"normalized", "counted", "nanfixed"} =>
    \A r \in 1..Len(labels) : \A d \in 1..NumLabels :
      npy_mean_and_std[2][d] # 0 => denormalize(labels[r])[d] = Fl(F_labels[r][d])

\* a label that normalization changed to a non-integer value
C9_Witness ==
  /\ pc = "normalized"
  /\ \E r \in 1..Len(labels) : \E d \in 1..NumLabels :
       /\ labels[r][d].den > 1
       /\ labels[r][d] # Fl(F_labels[r][d])

\* C10: labels are never normalized with statistics that hold a zero std.
C10_ZeroStdRejected ==
  (\E d \in 1..NumLabels : npy_mean_and_std[2][d] = 0)
    => pc \in {"build", "start", "stats", "loaded"}

\* C11: an estimate is returned only from a complete ensemble: when the
\* prediction of any member fails the invocation ends in PropagationError and
\* no mean or spread of the members that succeeded is returned.
C11_NoPartialEstimate ==
  /\ ep_estimate # <<>> =>
       ep_pc = "returned" /\ ep_error = "none" /\ Len(ep_preds) = ep_K
  /\ (ep_pc \in {"returned", "raised"} /\ ep_K >= 2 /\ Len(ep_preds) < ep_K) =>
       ep_pc = "raised" /\ ep_error = "PropagationError" /\ ep_estimate = <<>>

\* the third member failed after two members had succeeded
C11_Witness ==
  /\ ep_K = 3
  /\ Len(ep_preds) = 2
  /\ ep_error = "PropagationError"

\* C12: an invocation with K < 2 raises InsufficientSamplesError without
\* predicting or reporting anything; an estimate comes from K >= 2 predictions.
C12_InsufficientSamples ==
  /\ (ep_pc # "idle" /\ ep_K < 2) =>
       /\ ep_pc = "raised" /\ ep_error = "InsufficientSamplesError"
       /\ ep_preds = <<>> /\ ep_estimate = <<>>
  /\ ep_estimate # <<>> => ep_K >= 2 /\ Len(ep_preds) >= 2

\* the invocation with K = 1 was refused
C12_Witness ==
  /\ ep_K = 1
  /\ ep_pc = "raised"
  /\ ep_error = "InsufficientSamplesError"

\* C13: the arrays loaded from the file are not modified by the later steps:
\* while the name spectra still refers to the array read at load time, that
\* array holds the values read from the file.
C13_LoadedSpectraUnmodified ==
  pc \in {"loaded", "normalized", "counted", "nanfixed"} => spectra = F_spectrum

\* C14: once loaded, mean_labels and std_labels are the two rows of the
\* statistics file at every later step, and every label of train and cv is
\* normalized with that one pair.
C14_StatsFrozen ==
  /\ pc \notin {"build", "start"} =>
       /\ mean_and_std = npy_mean_and_std
       /\ mean_labels = npy_mean_and_std[1]
       /\ std_labels = npy_mean_and_std[2]
  /\ AfterSplit =>
       \A i \in 1..(Len(train_labels) + Len(cv_labels)) : \A d \in 1..NumLabels :
         LET y == (train_labels \o cv_labels)[i][d]
             x == F_labels[indices[perm[i]]][d]
             m == npy_mean_and_std[1][d]
             s == npy_mean_and_std[2][d]
         IN  IF s # 0
               THEN y.den > 0 /\ y.num * s = (x - m) * y.den
               ELSE y.den = 0 /\ y.num = Sign(Fl(x - m))

\* statistics whose rows differ, and labels in both train and cv
C14_Witness ==
  /\ pc = "done"
  /\ npy_mean_and_std[1] # npy_mean_and_std[2]
  /\ Len(train_labels) > 0 /\ Len(cv_labels) > 0

\* C15: the degeneracy test sees the NaN-replaced values: a spectrum of NaNs
\* and zeros only is discarded, a spectrum with two distinct values after the
\* replacement is kept.
C15_NanReplacedBeforeFilter ==
  /\ pc = "nanfixed" => \A r \in 1..Len(spectra) : ~HasNaN(spectra[r])
  /\ (AfterFilter \/ pc = "done") =>
       \A r \in 1..NumRows :
         /\ (\A k \in 1..NumFluxes : F_spectrum[r][k] \in {NaN, Fl(0)})
              => r \notin SeqRange(indices)
         /\ (\E j, k \in 1..NumFluxes :
               /\ ~np_isnan(F_spectrum[r][j]) /\ ~np_isnan(F_spectrum[r][k])
               /\ F_spectrum[r][j] # F_spectrum[r][k])
              => r \in SeqRange(indices)
         /\ (\E j, k \in 1..NumFluxes :
               np_isnan(F_spectrum[r][j]) /\ F_spectrum[r][k] \notin {NaN, Fl(0)})
              => r \in SeqRange(indices)

\* a row of NaNs and zeros was discarded while a row holding a NaN was kept
C15_Witness ==
  /\ pc = "filtered"
  /\ \E r \in 1..NumRows :
       /\ HasNaN(F_spectrum[r])
       /\ \E k \in 1..NumFluxes : F_spectrum[r][k] = Fl(0)
       /\ r \notin SeqRange(indices)
  /\ \E r \in 1..NumRows : HasNaN(F_spectrum[r]) /\ r \in SeqRange(indices)

\* C16: num_train is int(0.9 * R) of the R loaded rows; with M surviving rows
\* train has min(int(0.9*R), M) rows and cv max(0, M - int(0.9*R)), so cv is
\* empty whenever at least a tenth of the loaded rows are degenerate.
C16_TrainCountFromLoadedRows ==
  LET R == NumRows
      M == Cardinality(Survivors)
      nt == (9 * R) \div 10
  IN  /\ pc \in {"counted", "nanfixed", "filtered", "stacked", "shuffled", "split", "done"}
           => num_train = nt
      /\ AfterSplit =>
           /\ Len(train_spectra) = (IF nt < M THEN nt ELSE M)
           /\ Len(cv_spectra) = (IF M - nt > 0 THEN M - nt ELSE 0)
           /\ (10 * (R - M) >= R => Len(cv_spectra) = 0)

\* three rows loaded, one of them degenerate: train takes both survivors
C16_Witness ==
  /\ pc = "done"
  /\ NumRows = 3
  /\ Len(train_spectra) = 2
  /\ Len(cv_spectra) = 0

====
